---------------------------- MODULE Spec2Model ----------------------------
(***************************************************************************)
(* Model of the BigQuery tool functions of bq-optimization-agent:          *)
(*   bq_optimization/sub_agents/query/tools.py                             *)
(*       get_bq_client, _format_table_ref, get_job_details, get_table_info *)
(*   bq_expert_agent/sub_agents/antipattern_agent/agent.py                 *)
(*       analyze_bigquery_sql_anti_patterns                                *)
(*                                                                         *)
(* Text is modelled as a sequence of tokens (short strings).  The token    *)
(* "\n" is the newline character; a number is rendered as its decimal      *)
(* digits, one token per character.  Concatenation is \o, so an f-string   *)
(* is the concatenation of its literal pieces and its rendered fields.     *)
(***************************************************************************)
EXTENDS Integers, Sequences, FiniteSets, TLC

VARIABLES
    bq_client,   \* tools.py:24  the module global: None or a client handle
    clients,     \* every bigquery.Client built so far: clients[h] is the
                 \* project id handle h was constructed with
    job,         \* the job resource the warehouse holds for the job id
    last,        \* the outcome of the last completed tool call
    pc,          \* race model: each concurrent caller's position in get_bq_client
    arg,         \* race model: each concurrent caller's project_id argument
    tmp,         \* race model: the client a caller has built but not yet stored
    ret,         \* race model: the handle each caller returned
    writes,      \* history: the handles stored into the global, in order
    late,        \* race model: calls made after the racing callers finished
    main         \* batch materializer: the position and effects of main()

vars == <<bq_client, clients, job, last, pc, arg, tmp, ret, writes, late, main>>

---------------------------------------------------------------------------
(* Bounds of the model *)

\* longest list of standalone performance insights a job carries
MaxInsights == 2
\* most clients that can ever be constructed in the sequential model
\* (the code builds one; the cap only stops a runaway)
MaxClients == 3
\* calls of get_bq_client made after the two racing callers have finished
MaxLateCalls == 2
\* longest JSON array the antipattern service answers with
MaxPatterns == 2

---------------------------------------------------------------------------
(* Values *)

\* Python's None, as a handle and as a string argument
None == 0
NoneStr == "None"

\* project ids a caller may pass; NoneStr is the omitted / None argument
ProjectIds == {NoneStr, "p1", "p2"}

\* ----- text helpers ------------------------------------------------------

NL == "\n"

Digit == <<"0", "1", "2", "3", "4", "5", "6", "7", "8", "9">>

\* str(n) / f"{n}" for a natural number
RECURSIVE Dec(_)
Dec(n) == IF n < 10 THEN <<Digit[n + 1]>>
          ELSE Dec(n \div 10) \o <<Digit[(n % 10) + 1]>>

\* f"{n:,}": decimal digits with a comma between groups of three
RECURSIVE Thousands(_)
Thousands(n) ==
    IF n < 1000 THEN Dec(n)
    ELSE LET r == n % 1000
         IN  Thousands(n \div 1000)
               \o <<",", Digit[(r \div 100) + 1], Digit[((r \div 10) % 10) + 1],
                    Digit[(r % 10) + 1]>>

\* "\n".join(lines)
RECURSIVE Join(_)
Join(lines) ==
    IF lines = <<>> THEN <<>>
    ELSE IF Len(lines) = 1 THEN lines[1]
    ELSE lines[1] \o <<NL>> \o Join(Tail(lines))

\* text.split("\n"): the physical lines of a text
RECURSIVE SplitLines(_)
SplitLines(text) ==
    IF \A i \in 1..Len(text) : text[i] /= NL THEN <<text>>
    ELSE LET k == CHOOSE i \in 1..Len(text) :
                      text[i] = NL /\ \A j \in 1..(i - 1) : text[j] /= NL
         IN  <<SubSeq(text, 1, k - 1)>> \o SplitLines(SubSeq(text, k + 1, Len(text)))

\* text.startswith(prefix), token-wise
StartsWith(text, prefix) ==
    /\ Len(text) >= Len(prefix)
    /\ SubSeq(text, 1, Len(prefix)) = prefix

\* needle in text, token-wise
Contains(text, needle) ==
    \E i \in 1..(Len(text) - Len(needle) + 1) :
        SubSeq(text, i, i + Len(needle) - 1) = needle

\* all sequences without repetition over a finite set
RECURSIVE Arrangements(_)
Arrangements(S) ==
    {<<>>} \cup UNION { { <<x>> \o a : a \in Arrangements(S \ {x}) } : x \in S }

\* all sequences over S of length at most n
RECURSIVE SeqsUpTo(_, _)
SeqsUpTo(S, n) ==
    IF n = 0 THEN {<<>>}
    ELSE SeqsUpTo(S, n - 1)
           \cup { Append(s, x) : s \in { t \in SeqsUpTo(S, n - 1) : Len(t) = n - 1 }, x \in S }


---------------------------------------------------------------------------
(* The warehouse's data, as the tools read it *)

\* a table reference; py is the Python value's kind: a TableReference object,
\* None, or an empty value ("" or {}), both of which are falsy
TableRef(p, d, t) == [py |-> "TableReference", project |-> p, dataset_id |-> d, table_id |-> t]
NoneRef == [py |-> "None", project |-> "", dataset_id |-> "", table_id |-> ""]
EmptyRef == [py |-> "empty", project |-> "", dataset_id |-> "", table_id |-> ""]

PresentRefs == { TableRef("proj-a", "sales", "orders"), TableRef("proj-b", "hr", "staff") }
TableRefs == PresentRefs \cup {NoneRef, EmptyRef}

\* Python truthiness of a table-reference value
Truthy(v) == v.py = "TableReference"

\* query-plan stages; entry ids are unique within a plan
StageIds == {1, 2}
Stage(id) ==
    [entry_id |-> id,
     name |-> IF id = 1 THEN <<"S00: Input">> ELSE <<"S01: Output">>,
     status |-> <<"COMPLETE">>,
     records_read |-> IF id = 1 THEN 1234567 ELSE 40,
     records_written |-> IF id = 1 THEN 1005 ELSE 0,
     slot_ms |-> IF id = 1 THEN 999 ELSE 1000]
Plans == { [i \in 1..Len(a) |-> Stage(a[i])] : a \in Arrangements(StageIds) }

\* one element of stage_performance_standalone_insights
SlotContention(sid, n) ==
    [stage_id |-> sid,
     insight |-> [insight_type |-> "SLOT_CONTENTION", contended_slots_count |-> n]]
OtherInsight(sid) ==
    [stage_id |-> sid,
     insight |-> [insight_type |-> "HIGH_CARDINALITY_JOIN", contended_slots_count |-> 0]]
Insights ==
    { SlotContention(sid, IF sid = 1 THEN 4 ELSE 12) : sid \in StageIds }
      \cup { OtherInsight(sid) : sid \in StageIds }

\* job.performance_insights: the attribute may not exist at all, may be None,
\* or may be an object whose standalone-insight list is a list or None
NoAttr == [attr |-> "absent", standalone |-> "None", items |-> <<>>]
NoneAttr == [attr |-> "None", standalone |-> "None", items |-> <<>>]
PerfObject(lst) == [attr |-> "object", standalone |-> "list", items |-> lst]
PerfNoList == [attr |-> "object", standalone |-> "None", items |-> <<>>]
PerfValues == {NoAttr, NoneAttr, PerfNoList} \cup { PerfObject(l) : l \in SeqsUpTo(Insights, MaxInsights) }

\* job.query: SQL text of more than one line
QueryTexts == { <<"SELECT a", NL, "FROM t">> }

Jobs ==
    [query : QueryTexts,
     referenced_tables : Arrangements(PresentRefs),
     performance_insights : PerfValues,
     query_plan : Plans]

\* exceptions, as a type and the text str(ex) gives
Exc(type, msg) == [type |-> type, msg |-> msg]
NoExc == Exc("", <<>>)
CredentialsError == Exc("DefaultCredentialsError", <<"Your default credentials were not found.">>)
NotFound(what) == Exc("NotFound", <<"404 Not found: ", what>>)
Forbidden(what) == Exc("Forbidden", <<"403 Access Denied: ", what>>)
IterNoneError == Exc("TypeError", <<"'NoneType' object is not iterable">>)
BadProject == Exc("ValueError", <<"Pass a string for project">>)
BadDataset == Exc("ValueError", <<"Pass a string for dataset_id">>)

\* outcomes of the warehouse for one request
LookupOutcomes == {"ok", "NotFound", "Forbidden"}
CtorOutcomes == {"ok", "fail"}

---------------------------------------------------------------------------
(* tools.py *)

\* a variant that keeps one client per project id instead of one per process
get_bq_client_per_project(store, built, project_id, ctor) ==
    IF store = None \/ built[store] /= project_id
    THEN IF ctor = "ok"
         THEN [bq_client |-> Len(built) + 1, clients |-> Append(built, project_id),
               raised |-> FALSE, exc |-> NoExc, handle |-> Len(built) + 1]
         ELSE [bq_client |-> store, clients |-> built,
               raised |-> TRUE, exc |-> CredentialsError, handle |-> None]
    ELSE [bq_client |-> store, clients |-> built,
          raised |-> FALSE, exc |-> NoExc, handle |-> store]

\* a variant that stores a handle before the constructor has succeeded
get_bq_client_stored_early(store, built, project_id, ctor) ==
    IF store = None
    THEN [bq_client |-> Len(built) + 1, clients |-> Append(built, project_id),
          raised |-> ctor /= "ok",
          exc |-> IF ctor = "ok" THEN NoExc ELSE CredentialsError,
          handle |-> IF ctor = "ok" THEN Len(built) + 1 ELSE None]
    ELSE [bq_client |-> store, clients |-> built,
          raised |-> FALSE, exc |-> NoExc, handle |-> store]

\* get_bq_client (tools.py:26-32), run without interleaving.  store is the
\* global on entry, built the clients constructed so far, ctor whether
\* bigquery.Client(project=...) succeeds if it is called.
get_bq_client(store, built, project_id, ctor) ==
    IF store = None
    THEN IF ctor = "ok"
         THEN [bq_client |-> Len(built) + 1, clients |-> Append(built, project_id),
               raised |-> FALSE, exc |-> NoExc, handle |-> Len(built) + 1]
         ELSE [bq_client |-> store, clients |-> built,
               raised |-> TRUE, exc |-> CredentialsError, handle |-> None]
    ELSE [bq_client |-> store, clients |-> built,
          raised |-> FALSE, exc |-> NoExc, handle |-> store]

\* a variant that tests for None only, so an empty value is formatted
_format_table_ref_none_only(table_ref) ==
    IF table_ref.py = "None"
    THEN <<"N/A">>
    ELSE <<table_ref.project, ".", table_ref.dataset_id, ".", table_ref.table_id>>

\* _format_table_ref (tools.py:34-38)
_format_table_ref(table_ref) ==
    IF ~Truthy(table_ref)
    THEN <<"N/A">>
    ELSE <<table_ref.project, ".", table_ref.dataset_id, ".", table_ref.table_id>>


\* the result of one tool call: what it returned or raised, what it did to the
\* global, and what it asked of the outside world
Result(outcome, store, built, handle, text, map, exc, lookups, lines) ==
    [outcome |-> outcome,      \* "return" or "raise"
     bq_client |-> store,      \* the global after the call
     clients |-> built,        \* the clients constructed, after the call
     handle |-> handle,        \* the handle obtained from get_bq_client
     text |-> text,            \* the returned string, if the tool returns one
     map |-> map,              \* the returned mapping, if the tool returns one
     exc |-> exc,              \* the exception raised or caught
     lookups |-> lookups,      \* API requests issued (get_job / get_table)
     lines |-> lines]          \* entries appended to output_lines
NoMap == [none |-> TRUE]

\* a variant that puts the newest insight first in its group
DictPrepend(d, k, v) ==
    IF k \in DOMAIN d
    THEN [d EXCEPT ![k] = <<v>> \o @]
    ELSE [x \in DOMAIN d \cup {k} |-> IF x = k THEN <<v>> ELSE d[x]]

\* stage_insights[insight.stage_id].append(insight.insight) on a
\* defaultdict(list) (tools.py:78,82): a key exists once something was
\* appended under it
DictAppend(d, k, v) ==
    IF k \in DOMAIN d
    THEN [d EXCEPT ![k] = Append(@, v)]
    ELSE [x \in DOMAIN d \cup {k} |-> IF x = k THEN <<v>> ELSE d[x]]

\* a variant that files every insight under the stage id of the first one
RECURSIVE GroupInsightsFirstKey(_, _)
GroupInsightsFirstKey(items, d) ==
    IF items = <<>> THEN d
    ELSE GroupInsightsFirstKey(Tail(items),
             DictAppend(d, IF DOMAIN d = {} THEN Head(items).stage_id
                           ELSE CHOOSE k \in DOMAIN d : TRUE,
                        Head(items).insight))

\* the loop of tools.py:81-82 over the standalone insights
RECURSIVE GroupInsights(_, _)
GroupInsights(items, d) ==
    IF items = <<>> THEN d
    ELSE GroupInsights(Tail(items), DictAppend(d, Head(items).stage_id, Head(items).insight))

EmptyDict == [x \in {} |-> <<>>]

\* a variant that lists the referenced tables last to first
TableLinesReversed(j) ==
    IF j.referenced_tables /= <<>>
    THEN <<<<NL, "Referenced Tables:">>>>
           \o [i \in 1..Len(j.referenced_tables) |->
                 <<"  - ">> \o _format_table_ref(
                     j.referenced_tables[Len(j.referenced_tables) + 1 - i])]
    ELSE <<<<NL, "Referenced Tables: None">>>>

\* tools.py:70-75, the referenced-tables entries
TableLines(j) ==
    IF j.referenced_tables /= <<>>
    THEN <<<<NL, "Referenced Tables:">>>>
           \o [i \in 1..Len(j.referenced_tables) |->
                 <<"  - ">> \o _format_table_ref(j.referenced_tables[i])]
    ELSE <<<<NL, "Referenced Tables: None">>>>

\* tools.py:79, hasattr(job, 'performance_insights') and job.performance_insights
HasInsights(j) == j.performance_insights.attr = "object"

\* tools.py:78-84: the status entry
InsightStatusLines(j) ==
    IF HasInsights(j)
    THEN <<<<NL, "Performance insights found. Mapping them to stages...">>>>
    ELSE <<<<NL, "No performance insights were generated for this job.">>>>

\* a variant that iterates the insight list without the test of tools.py:79
InsightLoopRaisesUnguarded(j) == j.performance_insights.standalone = "None"

\* tools.py:78-84: the grouping; iterating None raises TypeError
InsightLoopRaises(j) == HasInsights(j) /\ j.performance_insights.standalone = "None"
StageInsights(j) ==
    IF HasInsights(j)
    THEN GroupInsights(j.performance_insights.items, EmptyDict)
    ELSE EmptyDict

\* a variant that prints the contended-slot count for every insight type
RECURSIVE InsightLinesAlwaysContended(_)
InsightLinesAlwaysContended(ins) ==
    IF ins = <<>> THEN <<>>
    ELSE LET i == Head(ins)
         IN  <<<<"     - Type: ", i.insight_type>>,
               <<"       Contended Slots: ">> \o Dec(i.contended_slots_count)>>
               \o InsightLinesAlwaysContended(Tail(ins))

\* tools.py:101-103, the entries of one insight
RECURSIVE InsightLines(_)
InsightLines(ins) ==
    IF ins = <<>> THEN <<>>
    ELSE LET i == Head(ins)
         IN  <<<<"     - Type: ", i.insight_type>>>>
               \o (IF i.insight_type = "SLOT_CONTENTION"
                   THEN <<<<"       Contended Slots: ">> \o Dec(i.contended_slots_count)>>
                   ELSE <<>>)
               \o InsightLines(Tail(ins))

\* tools.py:92-103, the entries of one stage
StageLines(stage, stage_insights) ==
    << <<NL, "## Stage ">> \o Dec(stage.entry_id) \o <<": ">> \o stage.name,
       <<"   Status: ">> \o stage.status,
       <<"   Records Read: ">> \o Thousands(stage.records_read),
       <<"   Records Written: ">> \o Thousands(stage.records_written),
       <<"   Slot Time (ms): ">> \o Thousands(stage.slot_ms) >>
      \o (IF stage.entry_id \in DOMAIN stage_insights
          THEN <<<<"   *** Query Insights for this stage: ***">>>>
                 \o InsightLines(stage_insights[stage.entry_id])
          ELSE <<>>)

\* a variant that walks the plan from its last stage to its first
RECURSIVE PlanLoopReversed(_, _)
PlanLoopReversed(plan, stage_insights) ==
    IF plan = <<>> THEN <<>>
    ELSE PlanLoopReversed(Tail(plan), stage_insights) \o StageLines(Head(plan), stage_insights)

\* the loop of tools.py:91-103 over the plan
RECURSIVE PlanLoop(_, _)
PlanLoop(plan, stage_insights) ==
    IF plan = <<>> THEN <<>>
    ELSE StageLines(Head(plan), stage_insights) \o PlanLoop(Tail(plan), stage_insights)

\* a variant that, without a plan, lists the insights of the first group
\* under the notice
PlanLinesOrphanInsights(j, stage_insights) ==
    IF j.query_plan = <<>>
    THEN <<<<"Job has no query plan.">>>>
           \o (IF DOMAIN stage_insights = {} THEN <<>>
               ELSE InsightLines(stage_insights[CHOOSE k \in DOMAIN stage_insights :
                                                  \A x \in DOMAIN stage_insights : k <= x]))
    ELSE <<<<NL, "--- Query Execution Plan & Insights ---">>>>
           \o PlanLoop(j.query_plan, stage_insights)

\* tools.py:87-103
PlanLines(j, stage_insights) ==
    IF j.query_plan = <<>>
    THEN <<<<"Job has no query plan.">>>>
    ELSE <<<<NL, "--- Query Execution Plan & Insights ---">>>>
           \o PlanLoop(j.query_plan, stage_insights)

\* tools.py:64-68
QueryLines(j) == << <<"--- Query Information ---">>, <<"Query Text:", NL>> \o j.query >>

\* output_lines as it stands when the function returns (tools.py:64-103)
OutputLines(j) ==
    QueryLines(j) \o TableLines(j) \o InsightStatusLines(j) \o PlanLines(j, StageInsights(j))

\* a variant that catches a failed lookup and returns the report built so far
get_job_details_partial(store, built, project_id, ctor, lookup, j) ==
    LET c == get_bq_client(store, built, project_id, ctor)
    IN  IF c.raised
        THEN Result("raise", c.bq_client, c.clients, None, <<>>, NoMap, c.exc, 0, 0)
        ELSE IF lookup /= "ok"
        THEN Result("return", c.bq_client, c.clients, c.handle,
                    Join(<<<<"--- Query Information ---">>>>), NoMap,
                    IF lookup = "NotFound" THEN NotFound("Job") ELSE Forbidden("Job"), 1, 1)
        ELSE IF InsightLoopRaises(j)
        THEN Result("raise", c.bq_client, c.clients, c.handle, <<>>, NoMap, IterNoneError, 1,
                    Len(QueryLines(j) \o TableLines(j) \o InsightStatusLines(j)))
        ELSE Result("return", c.bq_client, c.clients, c.handle, Join(OutputLines(j)), NoMap,
                    NoExc, 1, Len(OutputLines(j)))

\* get_job_details (tools.py:40-106).  ctor and lookup are what the client
\* constructor and client.get_job do if they are called; j is the job the
\* warehouse holds.
get_job_details(store, built, project_id, ctor, lookup, j) ==
    LET c == get_bq_client(store, built, project_id, ctor)
    IN  IF c.raised
        THEN Result("raise", c.bq_client, c.clients, None, <<>>, NoMap, c.exc, 0, 0)
        ELSE IF lookup /= "ok"
        THEN Result("raise", c.bq_client, c.clients, c.handle, <<>>, NoMap,
                    IF lookup = "NotFound" THEN NotFound("Job") ELSE Forbidden("Job"), 1, 0)
        ELSE IF InsightLoopRaises(j)
        THEN Result("raise", c.bq_client, c.clients, c.handle, <<>>, NoMap, IterNoneError, 1,
                    Len(QueryLines(j) \o TableLines(j) \o InsightStatusLines(j)))
        ELSE Result("return", c.bq_client, c.clients, c.handle, Join(OutputLines(j)), NoMap,
                    NoExc, 1, Len(OutputLines(j)))


\* identifiers get_table_info may be handed; NoneStr is a value that is not a
\* string, which DatasetReference rejects
DatasetIds == {"sales", NoneStr}
TableIds == {"orders", "no_such_table"}

\* Table.to_api_repr(): the table resource as a mapping
TableResource(project_id, dataset_id, table_id) ==
    [kind |-> "bigquery#table",
     tableReference |-> [projectId |-> project_id, datasetId |-> dataset_id, tableId |-> table_id]]

\* tools.py:199-203, the mapping built from a caught exception
ErrorMap(ex) == [status |-> "ERROR", error_details |-> ex.msg]

\* a variant that obtains the client before entering the try block
get_table_info_client_outside_try(store, built, project_id, dataset_id, table_id, ctor, fetch) ==
    LET c == get_bq_client(store, built, project_id, ctor)
    IN  IF c.raised
        THEN Result("raise", c.bq_client, c.clients, None, <<>>, NoMap, c.exc, 0, 0)
        ELSE IF project_id = NoneStr
        THEN Result("return", c.bq_client, c.clients, c.handle, <<>>, ErrorMap(BadProject),
                    BadProject, 0, 0)
        ELSE IF dataset_id = NoneStr
        THEN Result("return", c.bq_client, c.clients, c.handle, <<>>, ErrorMap(BadDataset),
                    BadDataset, 0, 0)
        ELSE IF fetch /= "ok"
        THEN LET ex == IF fetch = "NotFound" THEN NotFound("Table") ELSE Forbidden("Table")
             IN  Result("return", c.bq_client, c.clients, c.handle, <<>>, ErrorMap(ex), ex, 1, 0)
        ELSE Result("return", c.bq_client, c.clients, c.handle, <<>>,
                    TableResource(project_id, dataset_id, table_id), NoExc, 1, 0)

\* get_table_info (tools.py:109-203).  ctor and fetch are what the client
\* constructor and client.get_table do if they are called.
get_table_info(store, built, project_id, dataset_id, table_id, ctor, fetch) ==
    LET c == get_bq_client(store, built, project_id, ctor)
    IN  IF c.raised
        THEN Result("return", c.bq_client, c.clients, None, <<>>, ErrorMap(c.exc), c.exc, 0, 0)
        ELSE IF project_id = NoneStr
        THEN Result("return", c.bq_client, c.clients, c.handle, <<>>, ErrorMap(BadProject),
                    BadProject, 0, 0)
        ELSE IF dataset_id = NoneStr
        THEN Result("return", c.bq_client, c.clients, c.handle, <<>>, ErrorMap(BadDataset),
                    BadDataset, 0, 0)
        ELSE IF fetch /= "ok"
        THEN LET ex == IF fetch = "NotFound" THEN NotFound("Table") ELSE Forbidden("Table")
             IN  Result("return", c.bq_client, c.clients, c.handle, <<>>, ErrorMap(ex), ex, 1, 0)
        ELSE Result("return", c.bq_client, c.clients, c.handle, <<>>,
                    TableResource(project_id, dataset_id, table_id), NoExc, 1, 0)

---------------------------------------------------------------------------
(* Sequential use of the tools: one call at a time *)

Racers == {"t1", "t2"}

\* the record kept of the last call: the tool, its arguments, what the
\* outside world did, and the tool's result
Call(op, project_id, dataset_id, table_ref, ctor, api, before, res) ==
    [op |-> op,                  \* the tool called
     project_id |-> project_id,  \* its project_id argument
     dataset_id |-> dataset_id,  \* its dataset_id argument, if it has one
     table_ref |-> table_ref,    \* its table_ref argument, if it has one
     ctor |-> ctor,              \* what bigquery.Client(...) would do
     api |-> api,                \* what get_job / get_table would do
     before |-> before,          \* the global when the call began
     res |-> res]
NoCall == Call("none", NoneStr, "", NoneRef, "ok", "ok", None,
               Result("return", None, <<>>, None, <<>>, NoMap, NoExc, 0, 0))

\* create_bq_table.py:149-150  the batch program before main() is entered:
\* no project id read, no client, nothing printed, nothing sent to BigQuery
MainIdle ==
    [pc |-> "start",          \* the position of main()
     env |-> NoneStr,         \* what os.getenv("BQ_PROJECT_ID") returned
     client |-> NoneStr,      \* the project id of the client main built
     k |-> 0,                 \* the script run_bigquery_script is running
     exc |-> NoExc,           \* the exception in flight or that ended main
     out |-> <<>>,            \* the print calls so far, in order
     events |-> <<>>]         \* the requests to BigQuery and their ends, in order

\* the history of stores into the global
LogWrite == writes' = IF bq_client' /= bq_client THEN Append(writes, bq_client') ELSE writes

RaceIdle ==
    /\ pc = [t \in Racers |-> "idle"]
    /\ arg = [t \in Racers |-> NoneStr]
    /\ tmp = [t \in Racers |-> None]
    /\ ret = [t \in Racers |-> None]

\* jobs of the sequential model of the client: with and without a plan,
\* without insights or with an insight object whose list is None
ClientJobs ==
    { j \in Jobs :
        /\ j.referenced_tables = <<>>
        /\ j.performance_insights \in {NoAttr, PerfNoList}
        /\ Len(j.query_plan) \in {0, 2} }

Init ==
    /\ bq_client = None
    /\ clients = <<>>
    /\ job \in ClientJobs
    /\ last = NoCall
    /\ writes = <<>>
    /\ late = 0
    /\ RaceIdle
    /\ main = MainIdle

\* a direct call of get_bq_client(project_id)
GetBqClientCall ==
    \E p \in ProjectIds, ctor \in CtorOutcomes :
        /\ Len(clients) < MaxClients
        /\ LET c == get_bq_client(bq_client, clients, p, ctor)
           IN  /\ bq_client' = c.bq_client
               /\ clients' = c.clients
               /\ last' = Call("get_bq_client", p, "", NoneRef, ctor, "ok", bq_client,
                               Result(IF c.raised THEN "raise" ELSE "return", c.bq_client,
                                      c.clients, c.handle, <<>>, NoMap, c.exc, 0, 0))
        /\ LogWrite
        /\ UNCHANGED <<job, pc, arg, tmp, ret, late, main>>

\* a call of get_job_details(job_id, project_id)
GetJobDetailsCall ==
    \E p \in ProjectIds \ {NoneStr}, ctor \in CtorOutcomes, lookup \in LookupOutcomes :
        /\ Len(clients) < MaxClients
        /\ LET r == get_job_details(bq_client, clients, p, ctor, lookup, job)
           IN  /\ bq_client' = r.bq_client
               /\ clients' = r.clients
               /\ last' = Call("get_job_details", p, "", NoneRef, ctor, lookup, bq_client, r)
        /\ LogWrite
        /\ UNCHANGED <<job, pc, arg, tmp, ret, late, main>>

\* a call of get_table_info(project_id, dataset_id, table_id)
GetTableInfoCall ==
    \E p \in ProjectIds, d \in DatasetIds, t \in TableIds,
       ctor \in CtorOutcomes, fetch \in LookupOutcomes :
        /\ Len(clients) < MaxClients
        /\ (t = "no_such_table" => fetch /= "ok")
        /\ LET r == get_table_info(bq_client, clients, p, d, t, ctor, fetch)
           IN  /\ bq_client' = r.bq_client
               /\ clients' = r.clients
               /\ last' = Call("get_table_info", p, d, NoneRef, ctor, fetch, bq_client, r)
        /\ LogWrite
        /\ UNCHANGED <<job, pc, arg, tmp, ret, late, main>>

Next == GetBqClientCall \/ GetJobDetailsCall \/ GetTableInfoCall

Spec == Init /\ [][Next]_vars


---------------------------------------------------------------------------
(* The job-detail reporter and the formatter over every job of the model *)

InitReport ==
    /\ bq_client = None
    /\ clients = <<>>
    /\ job \in Jobs
    /\ last = NoCall
    /\ writes = <<>>
    /\ late = 0
    /\ RaceIdle
    /\ main = MainIdle

\* a direct call of _format_table_ref(table_ref)
FormatTableRefCall ==
    \E r \in TableRefs :
        /\ last' = Call("_format_table_ref", NoneStr, "", r, "ok", "ok", bq_client,
                        Result("return", bq_client, clients, None, _format_table_ref(r),
                               NoMap, NoExc, 0, 0))
        /\ UNCHANGED <<bq_client, clients, job, pc, arg, tmp, ret, writes, late, main>>

NextReport == GetJobDetailsCall \/ FormatTableRefCall

SpecReport == InitReport /\ [][NextReport]_vars

---------------------------------------------------------------------------
(* Two callers inside get_bq_client at once.  A caller's steps are the      *)
(* reads and writes of the global that the interpreter may interleave:      *)
(*   check   tools.py:29  read the global and compare it with None          *)
(*   build   tools.py:31  call bigquery.Client(project=project_id)          *)
(*   store   tools.py:31  assign the new client to the global               *)
(*   return  tools.py:32  read the global again and return what it holds    *)

InitRace ==
    /\ bq_client = None
    /\ clients = <<>>
    /\ job \in { j \in ClientJobs : j.query_plan = <<>> /\ j.performance_insights = NoAttr }
    /\ last = NoCall
    /\ writes = <<>>
    /\ late = 0
    /\ RaceIdle
    /\ main = MainIdle

\* a caller enters get_bq_client(project_id)
Enter(t) ==
    /\ pc[t] = "idle"
    /\ \E p \in ProjectIds : arg' = [arg EXCEPT ![t] = p]
    /\ pc' = [pc EXCEPT ![t] = "check"]
    /\ UNCHANGED <<bq_client, clients, job, last, tmp, ret, writes, late, main>>

\* tools.py:29, if bq_client is None
CheckClient(t) ==
    /\ pc[t] = "check"
    /\ pc' = [pc EXCEPT ![t] = IF bq_client = None THEN "build" ELSE "return"]
    /\ UNCHANGED <<bq_client, clients, job, last, arg, tmp, ret, writes, late, main>>

\* tools.py:31, the right-hand side: the constructor returns a new client or raises
BuildClient(t) ==
    /\ pc[t] = "build"
    /\ \E ctor \in CtorOutcomes :
          IF ctor = "ok"
          THEN /\ clients' = Append(clients, arg[t])
               /\ tmp' = [tmp EXCEPT ![t] = Len(clients) + 1]
               /\ pc' = [pc EXCEPT ![t] = "store"]
          ELSE /\ pc' = [pc EXCEPT ![t] = "raised"]
               /\ UNCHANGED <<clients, tmp>>
    /\ UNCHANGED <<bq_client, job, last, arg, ret, writes, late, main>>

\* a variant of the assignment that keeps a client another caller stored meanwhile
StoreIfUnset(t) ==
    /\ pc[t] = "store"
    /\ bq_client' = IF bq_client = None THEN tmp[t] ELSE bq_client
    /\ LogWrite
    /\ pc' = [pc EXCEPT ![t] = "return"]
    /\ UNCHANGED <<clients, job, last, arg, tmp, ret, late, main>>

\* tools.py:31, the assignment to the global
StoreClient(t) ==
    /\ pc[t] = "store"
    /\ bq_client' = tmp[t]
    /\ LogWrite
    /\ pc' = [pc EXCEPT ![t] = "return"]
    /\ UNCHANGED <<clients, job, last, arg, tmp, ret, late, main>>

\* tools.py:32, return bq_client
ReturnClient(t) ==
    /\ pc[t] = "return"
    /\ ret' = [ret EXCEPT ![t] = bq_client]
    /\ pc' = [pc EXCEPT ![t] = "done"]
    /\ UNCHANGED <<bq_client, clients, job, last, arg, tmp, writes, late, main>>

RaceOver == \A t \in Racers : pc[t] \in {"done", "raised"}

\* a call of get_bq_client made after both racing callers have finished
LateCall ==
    /\ RaceOver
    /\ late < MaxLateCalls
    /\ \E p \in ProjectIds, ctor \in CtorOutcomes :
          LET c == get_bq_client(bq_client, clients, p, ctor)
          IN  /\ bq_client' = c.bq_client
              /\ clients' = c.clients
              /\ last' = Call("get_bq_client", p, "", NoneRef, ctor, "ok", bq_client,
                              Result(IF c.raised THEN "raise" ELSE "return", c.bq_client,
                                     c.clients, c.handle, <<>>, NoMap, c.exc, 0, 0))
    /\ LogWrite
    /\ late' = late + 1
    /\ UNCHANGED <<job, pc, arg, tmp, ret, main>>

NextRace ==
    \/ \E t \in Racers : Enter(t)
    \/ \E t \in Racers : CheckClient(t)
    \/ \E t \in Racers : BuildClient(t)
    \/ \E t \in Racers : StoreClient(t)
    \/ \E t \in Racers : ReturnClient(t)
    \/ LateCall

SpecRace == InitRace /\ [][NextRace]_vars

---------------------------------------------------------------------------
(* antipattern_agent/agent.py *)

\* agent.py:8
ANTI_PATTERN_SERVICE_URL == <<"http://localhost:8080/analyze-query-ui">>

\* sql_query arguments: ordinary text, and text holding a lone surrogate,
\* which str.encode('utf-8') rejects
SqlQueries ==
    { [text |-> <<"SELECT * FROM t">>, encodable |-> TRUE],
      [text |-> <<"SELECT 1">>, encodable |-> TRUE],
      [text |-> <<"SELECT '", "\\ud800", "'">>, encodable |-> FALSE] }

\* JSON objects the service may put in its array: the token is the object's
\* text, PatternOf its value
PatternTokens == {"{name: SimpleSelectStar, suggestion: List the columns}",
                  "{name: None, suggestion: No anti-patterns found.}"}
PatternOf(tok) ==
    IF tok = "{name: SimpleSelectStar, suggestion: List the columns}"
    THEN [name |-> "SimpleSelectStar", suggestion |-> <<"List the columns">>]
    ELSE [name |-> "None", suggestion |-> <<"No anti-patterns found.">>]

\* the text of a JSON array of the given object tokens
RECURSIVE CommaJoin(_)
CommaJoin(toks) ==
    IF toks = <<>> THEN <<>>
    ELSE IF Len(toks) = 1 THEN <<toks[1]>>
    ELSE <<toks[1], ",">> \o CommaJoin(Tail(toks))
ArrayText(toks) == <<"[">> \o CommaJoin(toks) \o <<"]">>

\* response bodies: JSON arrays, a JSON object, an HTML page, nothing, and
\* bytes that are not UTF-8
Body(text, utf8) == [text |-> text, utf8 |-> utf8]
Bodies ==
    { Body(ArrayText(a), TRUE) : a \in SeqsUpTo(PatternTokens, MaxPatterns) }
      \cup { Body(<<"{error: Internal Server Error}">>, TRUE),
             Body(<<"<html>Bad Gateway</html>">>, TRUE),
             Body(<<>>, TRUE),
             Body(<<"<html>">>, FALSE) }

Statuses == {200, 201, 404, 500, 503}
ReasonPhrase(status) ==
    CASE status = 200 -> "OK"
      [] status = 201 -> "Created"
      [] status = 404 -> "Not Found"
      [] status = 500 -> "Internal Server Error"
      [] OTHER -> "Service Unavailable"

\* what the network does with one request: the service answers, the
\* connection cannot be made, or the read times out
HttpResponse(status, body) == [kind |-> "response", status |-> status, body |-> body]
HttpOutcomes ==
    { HttpResponse(st, b) : st \in Statuses, b \in Bodies }
      \cup { [kind |-> "URLError", status |-> 0, body |-> Body(<<"Connection refused">>, TRUE)],
             [kind |-> "URLError", status |-> 0, body |-> Body(<<"timed out">>, TRUE)],
             [kind |-> "TimeoutError", status |-> 0, body |-> Body(<<"The read operation timed out">>, TRUE)] }

\* json.loads on the body text: a list, another JSON value, or JSONDecodeError
IsArrayText(text) ==
    /\ Len(text) >= 2
    /\ text[1] = "["
    /\ text[Len(text)] = "]"
    /\ \A i \in 2..(Len(text) - 1) :
          IF i % 2 = 0 THEN text[i] \in PatternTokens ELSE text[i] = ","
    /\ Len(text) = 2 \/ Len(text) % 2 = 1
JsonLoads(text) ==
    IF IsArrayText(text)
    THEN [kind |-> "list",
          items |-> [k \in 1..((Len(text) - 1) \div 2) |-> PatternOf(text[2 * k])]]
    ELSE IF text = <<"{error: Internal Server Error}">>
    THEN [kind |-> "dict", items |-> <<>>]
    ELSE [kind |-> "JSONDecodeError", items |-> <<>>]

\* f"{analysis_results}" of a parsed value that is not a list
ReprOf(text) == <<"{'error': 'Internal Server Error'}">>

ToolError(suggestion) == <<[name |-> "ToolError", suggestion |-> suggestion]>>

\* a variant whose HTTP-error message reads "HTTP <code>"
HttpErrorSuggestionShort(code, reason, error_response) ==
    <<"Anti-pattern service ", "HTTP", " ">> \o Dec(code) \o <<" ", reason, ". Details: ">>
      \o error_response

\* agent.py:58, the suggestion built from an HTTPError
HttpErrorSuggestion(code, reason, error_response) ==
    <<"Anti-pattern service ", "HTTP", " ", "error: ">> \o Dec(code)
      \o <<" ", reason, ". Details: ">> \o error_response

\* a variant whose connection-failure message leaves the URL out
ConnectErrorSuggestionNoUrl(reason) ==
    <<"Could not connect to the anti-pattern service. Is it running? Details: ">> \o reason

\* agent.py:60, the suggestion built from a URLError
ConnectErrorSuggestion(reason) ==
    <<"Could not connect to the anti-pattern service at ">> \o ANTI_PATTERN_SERVICE_URL
      \o <<". Is it running? Details: ">> \o reason

\* analyze_bigquery_sql_anti_patterns (agent.py:11-62).  http is what the
\* network does with the request if it is sent.  urlopen raises HTTPError for
\* a status outside 200..299, so agent.py:54 is reached by 2xx statuses other
\* than 200 only.
analyze_bigquery_sql_anti_patterns(sql_query, http) ==
    LET Returns(lst) == [outcome |-> "return", list |-> lst, exc |-> NoExc, requests |-> 1]
    IN  IF ~sql_query.encodable
        THEN [outcome |-> "raise", list |-> <<>>,
              exc |-> Exc("UnicodeEncodeError", <<"surrogates not allowed">>), requests |-> 0]
        ELSE IF http.kind = "URLError"
        THEN Returns(ToolError(ConnectErrorSuggestion(http.body.text)))
        ELSE IF http.kind = "TimeoutError"
        THEN Returns(ToolError(<<"An unexpected error occurred while analyzing anti-patterns: ">>
                                 \o http.body.text))
        ELSE IF ~(200 <= http.status /\ http.status < 300)
        THEN Returns(ToolError(HttpErrorSuggestion(http.status, ReasonPhrase(http.status),
                                                   http.body.text)))
        ELSE IF ~http.body.utf8
        THEN Returns(ToolError(<<"An unexpected error occurred while analyzing anti-patterns: ",
                                 "'utf-8' codec can't decode byte">>))
        ELSE IF http.status = 200
        THEN LET analysis_results == JsonLoads(http.body.text)
             IN  IF analysis_results.kind = "JSONDecodeError"
                 THEN Returns(ToolError(
                          <<"Failed to decode JSON response from the anti-pattern service. Raw response: ">>
                            \o http.body.text))
                 ELSE IF analysis_results.kind = "list"
                 THEN Returns(analysis_results.items)
                 ELSE Returns(ToolError(<<"Unexpected response format from service: ">>
                                          \o ReprOf(http.body.text)))
        ELSE Returns(ToolError(<<"Anti-pattern service returned ", "HTTP", " ">>
                                 \o Dec(http.status) \o <<". Response: ">> \o http.body.text))

InitAnti ==
    /\ bq_client = None
    /\ clients = <<>>
    /\ job \in { j \in ClientJobs : j.query_plan = <<>> /\ j.performance_insights = NoAttr }
    /\ last = NoCall
    /\ writes = <<>>
    /\ late = 0
    /\ RaceIdle
    /\ main = MainIdle

\* a call of analyze_bigquery_sql_anti_patterns(sql_query)
AnalyzeCall ==
    \E q \in SqlQueries, http \in HttpOutcomes :
        /\ last' = [op |-> "analyze_bigquery_sql_anti_patterns", sql_query |-> q, http |-> http,
                    res |-> analyze_bigquery_sql_anti_patterns(q, http)]
        /\ UNCHANGED <<bq_client, clients, job, pc, arg, tmp, ret, writes, late, main>>

NextAnti == AnalyzeCall

SpecAnti == InitAnti /\ [][NextAnti]_vars

---------------------------------------------------------------------------
(* The batch materializer, create_bq_table.py: main() step by step *)

\* what os.getenv("BQ_PROJECT_ID") can return: None when the variable is
\* unset, the empty string, or a project id
EnvValues == {NoneStr, "", "proj-a", "proj-b"}

\* create_bq_table.py:50  "if not project_id"
EnvMissing(v) == v = NoneStr \/ v = ""

\* create_bq_table.py:57-140  the two scripts, as their lines (the long
\* SELECT of script 1 abridged, the quoted region of script 2 in parentheses)
script_1 ==
    <<"DECLARE num_days_to_scan INT64 DEFAULT 30;", NL,
      "CREATE SCHEMA IF NOT EXISTS optimization_workshop;", NL,
      "CREATE OR REPLACE TABLE optimization_workshop.queries_grouped_by_hash_project AS", NL,
      "WITH JobData AS (...) SELECT ... FROM JobData GROUP BY statement_type, query_hash;">>
script_2 ==
    <<"CREATE SCHEMA IF NOT EXISTS optimization_workshop;", NL,
      "CREATE OR REPLACE TABLE optimization_workshop.table_ddls AS", NL,
      "SELECT table_catalog, table_schema, table_name, table_type, ddl", NL,
      "FROM (region-us).INFORMATION_SCHEMA.TABLES;">>

\* create_bq_table.py:143-144  the calls of run_bigquery_script, in order
Scripts ==
    <<[script |-> script_1, script_name |-> "Aggregate Query Statistics"],
      [script |-> script_2, script_name |-> "Extract Table DDLs"]>>

\* what client.query(script) can do: return a job, or raise
SubmitOutcomes ==
    {NoExc,
     Exc("Forbidden", <<"403 Access Denied: User does not have bigquery.jobs.create permission">>),
     Exc("ConnectionError", <<"Connection aborted.">>)}

\* what query_job.result() can do: return, or raise the job's error
ResultOutcomes ==
    {NoExc,
     Exc("BadRequest", <<"400 Query error: Unrecognized name">>),
     Exc("Forbidden", <<"403 Access Denied: Table INFORMATION_SCHEMA.JOBS">>)}

\* the emoji that open the printed lines, by code point
GlyphRun == "U+25B6 U+FE0F"
GlyphOk == "U+2705"
GlyphFail == "U+274C"

\* one print call and one event appended to the record of main
Printed(lines) == main.out \o lines
Logged(ev, k) == Append(main.events, [ev |-> ev, k |-> k])

\* how many times client.query was called for script k
Submissions(events, k) ==
    Len(SelectSeq(events, LAMBDA e : e.ev = "submit" /\ e.k = k))

\* a variant that only rejects an unset variable
ReadProjectIdUnsetOnly ==
    /\ main.pc = "start"
    /\ \E v \in EnvValues :
          main' = IF v = NoneStr
                  THEN [main EXCEPT !.pc = "raised", !.env = v,
                          !.exc = Exc("ValueError",
                                      <<"BQ_PROJECT_ID environment variable not set.">>)]
                  ELSE [main EXCEPT !.pc = "client", !.env = v]
    /\ UNCHANGED <<bq_client, clients, job, last, pc, arg, tmp, ret, writes, late>>

\* create_bq_table.py:49-51  read the project id; fail when it is missing
ReadProjectId ==
    /\ main.pc = "start"
    /\ \E v \in EnvValues :
          main' = IF EnvMissing(v)
                  THEN [main EXCEPT !.pc = "raised", !.env = v,
                          !.exc = Exc("ValueError",
                                      <<"BQ_PROJECT_ID environment variable not set.">>)]
                  ELSE [main EXCEPT !.pc = "client", !.env = v]
    /\ UNCHANGED <<bq_client, clients, job, last, pc, arg, tmp, ret, writes, late>>

\* create_bq_table.py:54  client = bigquery.Client(project=project_id),
\* outside any try: a failure ends main
BuildBatchClient ==
    /\ main.pc = "client"
    /\ \E ctor \in CtorOutcomes :
          main' = IF ctor = "ok"
                  THEN [main EXCEPT !.pc = "announce", !.client = main.env, !.k = 1]
                  ELSE [main EXCEPT !.pc = "raised", !.exc = CredentialsError]
    /\ UNCHANGED <<bq_client, clients, job, last, pc, arg, tmp, ret, writes, late>>

\* create_bq_table.py:33  print the "Running" line of script k
AnnounceScript ==
    /\ main.pc = "announce"
    /\ main' = [main EXCEPT !.pc = "submit",
                  !.out = Printed(<< <<GlyphRun, " Running BigQuery script: ",
                                       Scripts[main.k].script_name, "...">> >>)]
    /\ UNCHANGED <<bq_client, clients, job, last, pc, arg, tmp, ret, writes, late>>

\* create_bq_table.py:36  query_job = client.query(script), inside the try
SubmitScript ==
    /\ main.pc = "submit"
    /\ \E o \in SubmitOutcomes :
          main' = IF o = NoExc
                  THEN [main EXCEPT !.pc = "wait", !.events = Logged("submit", main.k)]
                  ELSE [main EXCEPT !.pc = "except", !.exc = o,
                          !.events = Logged("submit", main.k)]
    /\ UNCHANGED <<bq_client, clients, job, last, pc, arg, tmp, ret, writes, late>>

\* create_bq_table.py:39  query_job.result(), inside the try
WaitForResult ==
    /\ main.pc = "wait"
    /\ \E o \in ResultOutcomes :
          main' = IF o = NoExc
                  THEN [main EXCEPT !.pc = "success"]
                  ELSE [main EXCEPT !.pc = "except", !.exc = o]
    /\ UNCHANGED <<bq_client, clients, job, last, pc, arg, tmp, ret, writes, late>>

\* a variant of main that stops after the first script
AfterScriptOnlyFirst(k) == "final"

\* where main goes when run_bigquery_script returns: the next script, or
\* the final print (create_bq_table.py:143-146)
AfterScript(k) == IF k < Len(Scripts) THEN "announce" ELSE "final"

\* create_bq_table.py:40  print the success line and return
ReportSuccess ==
    /\ main.pc = "success"
    /\ main' = [main EXCEPT !.pc = AfterScript(main.k),
                  !.k = IF main.k < Len(Scripts) THEN main.k + 1 ELSE main.k,
                  !.events = Logged("finished", main.k),
                  !.out = Printed(<< <<GlyphOk, " Successfully finished running ",
                                       Scripts[main.k].script_name, ".">> >>)]
    /\ UNCHANGED <<bq_client, clients, job, last, pc, arg, tmp, ret, writes, late>>

\* a variant whose handler prints the error and re-raises
HandleScriptErrorReraise ==
    /\ main.pc = "except"
    /\ main' = [main EXCEPT !.pc = "raised",
                  !.events = Logged("failed", main.k),
                  !.out = Printed(<< <<GlyphFail, " An error occurred while running ",
                                       Scripts[main.k].script_name, ": ">> \o main.exc.msg >>)]
    /\ UNCHANGED <<bq_client, clients, job, last, pc, arg, tmp, ret, writes, late>>

\* a variant whose handler submits the failed script once more before
\* giving up
HandleScriptErrorRetry ==
    /\ main.pc = "except"
    /\ main' = IF Submissions(main.events, main.k) < 2
               THEN [main EXCEPT !.pc = "submit", !.exc = NoExc,
                       !.events = Logged("failed", main.k)]
               ELSE [main EXCEPT !.pc = AfterScript(main.k),
                       !.k = IF main.k < Len(Scripts) THEN main.k + 1 ELSE main.k,
                       !.exc = NoExc,
                       !.events = Logged("failed", main.k)]
    /\ UNCHANGED <<bq_client, clients, job, last, pc, arg, tmp, ret, writes, late>>

\* create_bq_table.py:42-44  except Exception: print the error, print the
\* failed script in full, and return
HandleScriptError ==
    /\ main.pc = "except"
    /\ main' = [main EXCEPT !.pc = AfterScript(main.k),
                  !.k = IF main.k < Len(Scripts) THEN main.k + 1 ELSE main.k,
                  !.exc = NoExc,
                  !.events = Logged("failed", main.k),
                  !.out = Printed(<< <<GlyphFail, " An error occurred while running ",
                                       Scripts[main.k].script_name, ": ">> \o main.exc.msg,
                                     <<"Failed query:", NL, "---", NL>>
                                       \o Scripts[main.k].script \o <<NL, "---">> >>)]
    /\ UNCHANGED <<bq_client, clients, job, last, pc, arg, tmp, ret, writes, late>>

\* create_bq_table.py:146  the final print, after which main returns
PrintFinal ==
    /\ main.pc = "final"
    /\ main' = [main EXCEPT !.pc = "done",
                  !.out = Printed(<< <<NL, "All scripts have been executed.">> >>)]
    /\ UNCHANGED <<bq_client, clients, job, last, pc, arg, tmp, ret, writes, late>>

InitBatch ==
    /\ bq_client = None
    /\ clients = <<>>
    /\ job \in {j \in ClientJobs : j.performance_insights = NoAttr /\ j.query_plan = <<>>}
    /\ last = NoCall
    /\ writes = <<>>
    /\ late = 0
    /\ RaceIdle
    /\ main = MainIdle

NextBatch ==
    \/ ReadProjectId
    \/ BuildBatchClient
    \/ AnnounceScript
    \/ SubmitScript
    \/ WaitForResult
    \/ ReportSuccess
    \/ HandleScriptError
    \/ PrintFinal

SpecBatch == InitBatch /\ [][NextBatch]_vars

\* main() is one thread of one process: a step that can be taken is taken
SpecBatchFair == SpecBatch /\ WF_vars(NextBatch)

---------------------------------------------------------------------------
(* Every operation that sends a request: a process is either an agent
   process, where the tools are called one after another, or a run of the
   batch program *)

NextCalls ==
    \/ main.pc = "start" /\ GetJobDetailsCall
    \/ main.pc = "start" /\ GetTableInfoCall
    \/ main.pc = "start" /\ AnalyzeCall
    \/ last = NoCall /\ NextBatch

SpecCalls == InitBatch /\ [][NextCalls]_vars

---------------------------------------------------------------------------
(* Claims about the sequential use of the tools, checked under Spec *)

\* the failure, if any, that happened inside the last get_table_info call:
\* the client could not be built, an identifier was malformed, or the fetch
\* failed
TableInfoFailed ==
    \/ last.before = None /\ last.ctor = "fail"
    \/ last.project_id = NoneStr
    \/ last.dataset_id = NoneStr
    \/ last.api /= "ok"

\* C1: get_table_info never raises; whenever obtaining the client or fetching
\* the table fails, it returns a mapping whose status is "ERROR" and whose
\* error_details is the non-empty message of the failure.
C1_TableInfoNeverRaises ==
    last.op = "get_table_info" =>
        /\ last.res.outcome = "return"
        /\ TableInfoFailed =>
              /\ DOMAIN last.res.map = {"status", "error_details"}
              /\ last.res.map.status = "ERROR"
              /\ last.res.map.error_details = last.res.exc.msg
              /\ last.res.map.error_details /= <<>>

\* a get_table_info call whose client could not be built returned an error mapping
C1_Witness ==
    /\ last.op = "get_table_info"
    /\ last.before = None
    /\ last.ctor = "fail"
    /\ last.res.outcome = "return"
    /\ last.res.map = ErrorMap(CredentialsError)

\* C2: when the job lookup of get_job_details fails, the error propagates to
\* the caller, no report text is returned and no output line was produced.
C2_LookupFailurePropagates ==
    (last.op = "get_job_details" /\ last.res.lookups = 1 /\ last.api /= "ok") =>
        /\ last.res.outcome = "raise"
        /\ last.res.exc.type = last.api
        /\ last.res.text = <<>>
        /\ last.res.lines = 0

\* a get_job_details call whose job was not found raised NotFound
C2_Witness ==
    /\ last.op = "get_job_details"
    /\ last.res.lookups = 1
    /\ last.api = "NotFound"
    /\ last.res.outcome = "raise"
    /\ last.res.exc = NotFound("Job")

\* C3: once a call has built the client, with that call's project id, every
\* later call of the three tools obtains that same handle whatever project id
\* it passes, and no further client is constructed.
C3_SharedClient ==
    [][ /\ (bq_client = None /\ bq_client' /= None) =>
              /\ clients' = <<last'.project_id>>
              /\ last'.res.handle = bq_client'
        /\ bq_client /= None =>
              /\ bq_client' = bq_client
              /\ clients' = clients
              /\ last'.res.handle = bq_client ]_vars

\* a later call that passed another project id obtained the handle built first
C3_Witness ==
    /\ last.before /= None
    /\ last.op = "get_job_details"
    /\ last.project_id /= clients[last.before]
    /\ last.res.handle = last.before
    /\ bq_client = last.before
    /\ Len(clients) = 1


---------------------------------------------------------------------------
(* Claims about concurrent first calls, checked under SpecRace *)

Range(f) == { f[x] : x \in DOMAIN f }

\* C4 as stated: the handle that stays stored is the one written first, and
\* both callers end up with that handle.
C4_FirstWriterWins ==
    (RaceOver /\ writes /= <<>>) =>
        /\ Len(clients) <= 2
        /\ bq_client = writes[1]
        /\ \A t \in Racers : pc[t] = "done" => ret[t] = writes[1]

\* C4, amended: at most two clients are constructed and each is stored; the
\* handle that stays stored is the one written last, so the client written
\* first is dropped from the global; a racing caller returns one of the
\* stored clients; every later call obtains the handle written last and
\* constructs nothing.
C4_LastWriterWins ==
    /\ Len(clients) <= 2
    /\ RaceOver =>
          /\ Len(writes) = Len(clients)
          /\ writes /= <<>> => bq_client = writes[Len(writes)]
          /\ \A t \in Racers : pc[t] = "done" => ret[t] \in Range(writes)
          /\ (late > 0 /\ last.before /= None) =>
                /\ last.res.handle = bq_client
                /\ last.res.clients = clients
                /\ last.before = bq_client

\* both callers built and stored a client, the first-written one was
\* overwritten, and the two callers returned different handles
C4_Witness ==
    /\ RaceOver
    /\ Len(writes) = 2
    /\ bq_client = writes[2]
    /\ bq_client /= writes[1]
    /\ \E t, u \in Racers : pc[t] = "done" /\ pc[u] = "done" /\ ret[t] /= ret[u]


---------------------------------------------------------------------------
(* Claims about the report and the formatter, checked under SpecReport *)

\* the last call was get_job_details and it returned a report
ReportReturned == last.op = "get_job_details" /\ last.res.outcome = "return"

\* the physical lines of the returned string
ReportLines == SplitLines(last.res.text)

IsStageHeader(line) == StartsWith(line, <<"## Stage ">>)
IsTypeLine(line) == StartsWith(line, <<"     - Type: ">>)
IsContendedLine(line) == StartsWith(line, <<"       Contended Slots: ">>)
IsTableLine(line) == StartsWith(line, <<"  - ">>)
IsInsightBanner(line) == line = <<"   *** Query Insights for this stage: ***">>

\* the lines the claims expect
HeaderOf(stage) == <<"## Stage ">> \o Dec(stage.entry_id) \o <<": ">> \o stage.name
TypeLineOf(i) == <<"     - Type: ", i.insight.insight_type>>
ContendedLineOf(i) == <<"       Contended Slots: ">> \o Dec(i.insight.contended_slots_count)
TableLineOf(r) == <<"  - ", r.project, ".", r.dataset_id, ".", r.table_id>>

\* the insights the API supplied, in its order
SuppliedInsights ==
    IF job.performance_insights.attr = "object" THEN job.performance_insights.items ELSE <<>>

IsSlotContention(i) == i.insight.insight_type = "SLOT_CONTENTION"

\* the supplied insights whose stage id is sid, in the API's order
InsightsOfStage(sid) ==
    LET ForStage(i) == i.stage_id = sid IN SelectSeq(SuppliedInsights, ForStage)

\* the insights of the plan's stages, stage by stage in plan order
RECURSIVE InsightsInPlanOrder(_)
InsightsInPlanOrder(plan) ==
    IF plan = <<>> THEN <<>>
    ELSE InsightsOfStage(Head(plan).entry_id) \o InsightsInPlanOrder(Tail(plan))

\* the index of the k-th stage header among the lines
HeaderIndex(L, k) ==
    LET H == { i \in 1..Len(L) : IsStageHeader(L[i]) }
    IN  CHOOSE i \in H : Cardinality({ x \in H : x < i }) = k - 1

\* the lines from the k-th stage header up to the next header, or to the end
Block(L, k, n) ==
    SubSeq(L, HeaderIndex(L, k), IF k < n THEN HeaderIndex(L, k + 1) - 1 ELSE Len(L))

\* C5: for a job with a non-empty plan, the lines of the report that start
\* with "## Stage" are the headers of the plan's stages, one per stage, in
\* the order the API supplied the stages.
C5_StageHeaders ==
    (ReportReturned /\ job.query_plan /= <<>>) =>
        /\ Len(SelectSeq(ReportLines, IsStageHeader)) = Len(job.query_plan)
        /\ SelectSeq(ReportLines, IsStageHeader)
             = [k \in 1..Len(job.query_plan) |-> HeaderOf(job.query_plan[k])]

\* a report of a two-stage plan supplied as stage 2, stage 1
C5_Witness ==
    /\ ReportReturned
    /\ Len(job.query_plan) = 2
    /\ job.query_plan[1].entry_id = 2
    /\ SelectSeq(ReportLines, IsStageHeader)
         = <<HeaderOf(job.query_plan[1]), HeaderOf(job.query_plan[2])>>

\* C6: every SLOT_CONTENTION insight that is shown gives a type line followed
\* at once by its "Contended Slots: <count>" line, and a contended-slots line
\* appears nowhere else, so no insight of another type gives one.
C6_SlotContentionLines ==
    ReportReturned =>
        LET L == ReportLines
            D == InsightsInPlanOrder(job.query_plan)
            SC == SelectSeq(D, IsSlotContention)
        IN  /\ SelectSeq(L, IsTypeLine) = [k \in 1..Len(D) |-> TypeLineOf(D[k])]
            /\ SelectSeq(L, IsContendedLine) = [k \in 1..Len(SC) |-> ContendedLineOf(SC[k])]
            /\ \A i \in 1..Len(L) :
                  /\ (IsTypeLine(L[i]) /\ L[i][2] = "SLOT_CONTENTION") =>
                        i < Len(L) /\ IsContendedLine(L[i + 1])
                  /\ (IsTypeLine(L[i]) /\ L[i][2] /= "SLOT_CONTENTION") =>
                        i = Len(L) \/ ~IsContendedLine(L[i + 1])
                  /\ IsContendedLine(L[i]) =>
                        i > 1 /\ L[i - 1] = <<"     - Type: ", "SLOT_CONTENTION">>

\* a report that shows a SLOT_CONTENTION insight and then an insight of
\* another type under the same stage
C6_Witness ==
    /\ ReportReturned
    /\ \E i \in 1..(Len(ReportLines) - 2) :
          /\ ReportLines[i] = <<"     - Type: ", "SLOT_CONTENTION">>
          /\ ReportLines[i + 1] = <<"       Contended Slots: ", "1", "2">>
          /\ ReportLines[i + 2] = <<"     - Type: ", "HIGH_CARDINALITY_JOIN">>

\* C7: insights are looked up by stage id.  The block of each plan stage shows
\* exactly the insights whose stage id is that stage's id (none, and no
\* banner, when there are none); nothing is shown outside the stages' blocks,
\* so an insight whose stage id matches no plan stage is never shown; and such
\* an insight raises no error.
C7_InsightsByStageId ==
    /\ ReportReturned =>
          LET L == ReportLines
              n == Len(job.query_plan)
              first == IF n = 0 THEN Len(L) + 1 ELSE HeaderIndex(L, 1)
          IN  /\ \A i \in 1..(first - 1) :
                    ~IsTypeLine(L[i]) /\ ~IsContendedLine(L[i]) /\ ~IsInsightBanner(L[i])
              /\ \A k \in 1..n :
                    LET B == Block(L, k, n)
                        G == InsightsOfStage(job.query_plan[k].entry_id)
                        SC == SelectSeq(G, IsSlotContention)
                    IN  /\ SelectSeq(B, IsTypeLine) = [x \in 1..Len(G) |-> TypeLineOf(G[x])]
                        /\ SelectSeq(B, IsContendedLine)
                             = [x \in 1..Len(SC) |-> ContendedLineOf(SC[x])]
                        /\ Len(SelectSeq(B, IsInsightBanner)) = IF G = <<>> THEN 0 ELSE 1
    /\ (last.op = "get_job_details" /\ last.res.outcome = "raise") =>
          \/ last.res.exc.type \in {"DefaultCredentialsError", "NotFound", "Forbidden"}
          \/ job.performance_insights = PerfNoList

\* the scenario of the claim: stages 1 and 2, one SLOT_CONTENTION insight of
\* count 4 for stage 1; the report has exactly one "Contended Slots: 4" line,
\* after stage 1's header and before stage 2's
C7_Witness ==
    /\ ReportReturned
    /\ Len(job.query_plan) = 2
    /\ job.query_plan[1].entry_id = 1
    /\ job.query_plan[2].entry_id = 2
    /\ SuppliedInsights = <<SlotContention(1, 4)>>
    /\ LET L == ReportLines
           C == { i \in 1..Len(L) : L[i] = <<"       Contended Slots: ", "4">> }
       IN  /\ Cardinality(C) = 1
           /\ \A i \in C : HeaderIndex(L, 1) < i /\ i < HeaderIndex(L, 2)
           /\ \A i \in 1..Len(L) : IsContendedLine(L[i]) => i \in C

\* C8: with no referenced table the report has the line
\* "Referenced Tables: None" and no table line; otherwise it has, right after
\* the line "Referenced Tables:", one "  - project.dataset.table" line per
\* referenced table in the API's order, and no other table line.
C8_ReferencedTables ==
    ReportReturned =>
        LET L == ReportLines
            T == job.referenced_tables
        IN  IF T = <<>>
            THEN /\ \E i \in 1..Len(L) : L[i] = <<"Referenced Tables: None">>
                 /\ \A i \in 1..Len(L) :
                       ~IsTableLine(L[i]) /\ L[i] /= <<"Referenced Tables:">>
            ELSE /\ SelectSeq(L, IsTableLine) = [k \in 1..Len(T) |-> TableLineOf(T[k])]
                 /\ \A i \in 1..Len(L) : L[i] /= <<"Referenced Tables: None">>
                 /\ \E h \in 1..Len(L) :
                       /\ L[h] = <<"Referenced Tables:">>
                       /\ h + Len(T) <= Len(L)
                       /\ \A k \in 1..Len(T) : L[h + k] = TableLineOf(T[k])

\* a report listing two referenced tables, supplied as proj-b then proj-a
C8_Witness ==
    /\ ReportReturned
    /\ Len(job.referenced_tables) = 2
    /\ job.referenced_tables[1].project = "proj-b"
    /\ Len(SelectSeq(ReportLines, IsTableLine)) = 2

\* C9: _format_table_ref returns project.dataset.table for a reference that
\* is present and "N/A" for None or an empty value, and never raises.
C9_FormatTableRef ==
    last.op = "_format_table_ref" =>
        /\ last.res.outcome = "return"
        /\ last.table_ref \in PresentRefs =>
              last.res.text = <<last.table_ref.project, ".", last.table_ref.dataset_id, ".",
                                last.table_ref.table_id>>
        /\ last.table_ref \in {NoneRef, EmptyRef} => last.res.text = <<"N/A">>

\* the formatter was applied to an empty value and gave "N/A"
C9_Witness ==
    /\ last.op = "_format_table_ref"
    /\ last.table_ref = EmptyRef
    /\ last.res.text = <<"N/A">>


---------------------------------------------------------------------------
(* Claims about the antipattern tool, checked under SpecAnti *)

\* the last call sent its request and the service answered with HTTP 500
Answered500 ==
    /\ last.op = "analyze_bigquery_sql_anti_patterns"
    /\ last.res.requests = 1
    /\ last.http.kind = "response"
    /\ last.http.status = 500

\* the one-element ToolError list
IsToolErrorList(lst) == Len(lst) = 1 /\ lst[1].name = "ToolError"

\* C10 as stated: on HTTP 500 the tool returns one ToolError entry whose
\* suggestion contains the text "HTTP 500".
C10_Http500Text ==
    Answered500 =>
        /\ last.res.outcome = "return"
        /\ IsToolErrorList(last.res.list)
        /\ Contains(last.res.list[1].suggestion, <<"HTTP", " ", "5", "0", "0">>)

\* C10, amended: on HTTP 500 the tool does not raise and returns one
\* ToolError entry whose suggestion contains the text "HTTP error: 500".
C10_Http500ErrorText ==
    Answered500 =>
        /\ last.res.outcome = "return"
        /\ IsToolErrorList(last.res.list)
        /\ Contains(last.res.list[1].suggestion, <<"HTTP", " ", "error: ", "5", "0", "0">>)

\* the service answered 500 with an HTML body and the tool returned the
\* HTTPError message
C10_Witness ==
    /\ Answered500
    /\ last.http.body.text = <<"<html>Bad Gateway</html>">>
    /\ last.res.outcome = "return"
    /\ last.res.list[1].suggestion
         = <<"Anti-pattern service ", "HTTP", " ", "error: ", "5", "0", "0", " ",
             "Internal Server Error", ". Details: ", "<html>Bad Gateway</html>">>


\* the last call sent its request and the connection could not be made
Unreachable ==
    /\ last.op = "analyze_bigquery_sql_anti_patterns"
    /\ last.res.requests = 1
    /\ last.http.kind = "URLError"

\* C11: when the service cannot be reached the tool does not raise and
\* returns one ToolError entry whose suggestion mentions the configured URL.
C11_UnreachableMentionsUrl ==
    Unreachable =>
        /\ last.res.outcome = "return"
        /\ IsToolErrorList(last.res.list)
        /\ Contains(last.res.list[1].suggestion, ANTI_PATTERN_SERVICE_URL)

\* the connection was refused and the tool returned the message with the URL
C11_Witness ==
    /\ Unreachable
    /\ last.http.body.text = <<"Connection refused">>
    /\ last.res.outcome = "return"
    /\ last.res.list[1].suggestion
         = <<"Could not connect to the anti-pattern service at ",
             "http://localhost:8080/analyze-query-ui",
             ". Is it running? Details: ", "Connection refused">>

\* the service answered 200 with a JSON array of {name, suggestion} objects
AnsweredArray ==
    /\ last.http.kind = "response"
    /\ last.http.status = 200
    /\ last.http.body.utf8
    /\ IsArrayText(last.http.body.text)

\* C12: the tool never raises and always returns a list: the service's array
\* on a 200 answer carrying a JSON array, and otherwise a single ToolError
\* entry with a suggestion.
C12_AlwaysReturnsList ==
    last.op = "analyze_bigquery_sql_anti_patterns" =>
        /\ last.res.outcome = "return"
        /\ IF AnsweredArray
           THEN last.res.list = JsonLoads(last.http.body.text).items
           ELSE IsToolErrorList(last.res.list) /\ last.res.list[1].suggestion /= <<>>

---------------------------------------------------------------------------
(* Claims about the batch materializer, checked under SpecBatch and
   SpecBatchFair *)

\* the events of script k, and what main printed about it
Ended(k, how) == \E i \in 1..Len(main.events) : main.events[i] = [ev |-> how, k |-> k]
Submitted(k) == Ended(k, "submit")
ScriptFailed(k) == Ended(k, "failed")
PrintedLine(line) == \E i \in 1..Len(main.out) : main.out[i] = line
PrintedErrorOf(k) ==
    \E i \in 1..Len(main.out) :
        StartsWith(main.out[i], <<GlyphFail, " An error occurred while running ",
                                  Scripts[k].script_name, ": ">>)
PrintedTextOf(k) ==
    PrintedLine(<<"Failed query:", NL, "---", NL>> \o Scripts[k].script \o <<NL, "---">>)
PrintedSuccessOf(k) ==
    PrintedLine(<<GlyphOk, " Successfully finished running ", Scripts[k].script_name, ".">>)

\* what holds of every state of a run in which a script may have failed
IndependentScripts ==
    /\ \A k \in 1..Len(Scripts) :
          /\ ScriptFailed(k) => PrintedErrorOf(k) /\ PrintedTextOf(k) /\ ~PrintedSuccessOf(k)
          /\ Ended(k, "finished") => PrintedSuccessOf(k) /\ ~PrintedErrorOf(k)
    /\ main.pc = "raised" => main.events = <<>>
    /\ main.pc = "done" =>
          /\ Submitted(2)
          /\ ScriptFailed(2) \/ Ended(2, "finished")

\* C13: the two scripts are independent: a failure of script 1, at
\* submission or while waiting, is printed together with the script's full
\* text, script 2 is then still run and its own outcome printed, and no
\* script failure ends main.
C13_ScriptsIndependent ==
    /\ []IndependentScripts
    /\ ScriptFailed(1) ~> Submitted(2)
    /\ ScriptFailed(1) ~> (main.pc = "done")

\* script 1 failed while waiting for its result, script 2 then succeeded
C13_Witness ==
    /\ main.pc = "done"
    /\ main.events = <<[ev |-> "submit", k |-> 1], [ev |-> "failed", k |-> 1],
                       [ev |-> "submit", k |-> 2], [ev |-> "finished", k |-> 2]>>
    /\ PrintedLine(<<GlyphFail, " An error occurred while running ",
                     "Aggregate Query Statistics", ": ",
                     "400 Query error: Unrecognized name">>)
    /\ PrintedTextOf(1)
    /\ PrintedSuccessOf(2)

\* C14: when BQ_PROJECT_ID is unset or empty, main ends with the
\* configuration error, no client constructed and no script submitted.
C14_MissingProjectIdIsFatal ==
    main.pc /= "start" /\ EnvMissing(main.env) =>
        /\ main.pc = "raised"
        /\ main.exc = Exc("ValueError", <<"BQ_PROJECT_ID environment variable not set.">>)
        /\ main.client = NoneStr
        /\ main.events = <<>>
        /\ main.out = <<>>

\* the variable was set to the empty string and main raised
C14_Witness ==
    /\ main.pc = "raised"
    /\ main.env = ""
    /\ main.exc.type = "ValueError"

---------------------------------------------------------------------------
(* Claims about every operation that sends a request, checked under
   SpecCalls *)

\* the request the last tool call sent, if any, failed
LastRequestFailed ==
    \/ /\ last.op \in {"get_job_details", "get_table_info"}
       /\ last.res.lookups > 0
       /\ last.api /= "ok"
    \/ /\ last.op = "analyze_bigquery_sql_anti_patterns"
       /\ last.res.requests > 0
       /\ ~(last.http.kind = "response" /\ last.http.status = 200)

\* C15: no operation retries: one call of get_job_details looks the job up
\* at most once, get_table_info fetches at most once, the antipattern tool
\* sends at most one HTTP request, and run_bigquery_script submits its script
\* at most once, also when the request failed.
C15_NoRetries ==
    /\ last.op \in {"get_job_details", "get_table_info"} => last.res.lookups <= 1
    /\ last.op = "analyze_bigquery_sql_anti_patterns" => last.res.requests <= 1
    /\ LastRequestFailed =>
          IF last.op = "analyze_bigquery_sql_anti_patterns"
          THEN last.res.requests = 1
          ELSE last.res.lookups = 1
    /\ \A k \in 1..Len(Scripts) : Submissions(main.events, k) <= 1

\* both scripts failed at submission and main ended with two submissions
C15_Witness ==
    /\ main.pc = "done"
    /\ main.events = <<[ev |-> "submit", k |-> 1], [ev |-> "failed", k |-> 1],
                       [ev |-> "submit", k |-> 2], [ev |-> "failed", k |-> 2]>>
    /\ PrintedLine(<<GlyphFail, " An error occurred while running ",
                     "Extract Table DDLs", ": ", "Connection aborted.">>)

---------------------------------------------------------------------------
(* Further claims about the job report, checked under SpecReport *)

\* the last call was get_job_details and it obtained the job
JobRetrieved ==
    /\ last.op = "get_job_details"
    /\ last.res.lookups = 1
    /\ last.api = "ok"

\* the job has no performance_insights attribute, or the attribute is None,
\* or it is an object whose insight list is empty
NoInsightData == job.performance_insights \in {NoAttr, NoneAttr, PerfObject(<<>>)}

IsCounterLine(line) ==
    \/ StartsWith(line, <<"   Status: ">>)
    \/ StartsWith(line, <<"   Records Read: ">>)
    \/ StartsWith(line, <<"   Records Written: ">>)
    \/ StartsWith(line, <<"   Slot Time (ms): ">>)
IsInsightLine(line) == IsInsightBanner(line) \/ IsTypeLine(line) \/ IsContendedLine(line)
NoticeLine == <<"Job has no query plan.">>
CountLines(L, line) == Cardinality({ i \in 1..Len(L) : L[i] = line })

\* the report has every section: the query, the referenced tables, the
\* insight status, and either the notice or every stage with its four counters
CompleteReport(L) ==
    /\ L[1] = <<"--- Query Information ---">>
    /\ L[2] = <<"Query Text:">>
    /\ CountLines(L, <<"Referenced Tables:">>) + CountLines(L, <<"Referenced Tables: None">>) = 1
    /\ CountLines(L, <<"No performance insights were generated for this job.">>)
         + CountLines(L, <<"Performance insights found. Mapping them to stages...">>) = 1
    /\ IF job.query_plan = <<>>
       THEN L[Len(L)] = NoticeLine
       ELSE /\ CountLines(L, <<"--- Query Execution Plan & Insights ---">>) = 1
            /\ Len(SelectSeq(L, IsStageHeader)) = Len(job.query_plan)
            /\ \A k \in 1..Len(job.query_plan) :
                  LET st == job.query_plan[k]
                  IN  SelectSeq(Block(L, k, Len(job.query_plan)), IsCounterLine)
                        = << <<"   Status: ">> \o st.status,
                             <<"   Records Read: ">> \o Thousands(st.records_read),
                             <<"   Records Written: ">> \o Thousands(st.records_written),
                             <<"   Slot Time (ms): ">> \o Thousands(st.slot_ms) >>

\* C16: missing insight data is not an error: when the job has no
\* performance_insights field, or the field is empty, get_job_details returns
\* a complete report in which no stage carries an insight line.
C16_MissingInsightsIsNoError ==
    (JobRetrieved /\ NoInsightData) =>
        /\ last.res.outcome = "return"
        /\ CompleteReport(ReportLines)
        /\ \A i \in 1..Len(ReportLines) : ~IsInsightLine(ReportLines[i])
        /\ ~HasInsights(job) =>
              CountLines(ReportLines,
                         <<"No performance insights were generated for this job.">>) = 1

\* a job of an older API, without the attribute, with a two-stage plan
C16_Witness ==
    /\ JobRetrieved
    /\ job.performance_insights = NoAttr
    /\ Len(job.query_plan) = 2
    /\ last.res.outcome = "return"
    /\ Len(SelectSeq(ReportLines, IsCounterLine)) = 8

\* C17: without a query plan the report has the one-line notice
\* "Job has no query plan." and no stage header, no stage counter line and no
\* insight line, also when the job carries performance insights.
C17_NoPlanNotice ==
    (ReportReturned /\ job.query_plan = <<>>) =>
        /\ CountLines(ReportLines, NoticeLine) = 1
        /\ \A i \in 1..Len(ReportLines) :
              /\ ~IsStageHeader(ReportLines[i])
              /\ ~IsCounterLine(ReportLines[i])
              /\ ~IsInsightLine(ReportLines[i])

\* a job without a plan that carries two insights
C17_Witness ==
    /\ ReportReturned
    /\ job.query_plan = <<>>
    /\ Len(SuppliedInsights) = 2
    /\ ReportLines[Len(ReportLines)] = NoticeLine

\* the insight lines the claims expect for a group, insight by insight
RECURSIVE GroupLinesOf(_)
GroupLinesOf(G) ==
    IF G = <<>> THEN <<>>
    ELSE <<TypeLineOf(Head(G))>>
           \o (IF IsSlotContention(Head(G)) THEN <<ContendedLineOf(Head(G))>> ELSE <<>>)
           \o GroupLinesOf(Tail(G))

IsTypeOrContendedLine(line) == IsTypeLine(line) \/ IsContendedLine(line)
RECURSIVE SumLen(_, _)
SumLen(d, ks) ==
    IF ks = {} THEN 0
    ELSE LET k == CHOOSE x \in ks : TRUE IN Len(d[k]) + SumLen(d, ks \ {k})

\* C18: insights are grouped by stage id in the API's order: the groups
\* partition the insight list, each group keeps the list's relative order,
\* and the insight lines under a stage are those of its group in that order.
C18_GroupsKeepOrder ==
    ReportReturned =>
        LET d == StageInsights(job)
            n == Len(job.query_plan)
        IN  /\ DOMAIN d = { SuppliedInsights[i].stage_id : i \in 1..Len(SuppliedInsights) }
            /\ \A k \in DOMAIN d :
                  d[k] = [x \in 1..Len(InsightsOfStage(k)) |-> InsightsOfStage(k)[x].insight]
            /\ SumLen(d, DOMAIN d) = Len(SuppliedInsights)
            /\ \A k \in 1..n :
                  SelectSeq(Block(ReportLines, k, n), IsTypeOrContendedLine)
                    = GroupLinesOf(InsightsOfStage(job.query_plan[k].entry_id))

\* two insights of stage 1, the slot contention second in the API's list,
\* shown under stage 1 in that order
C18_Witness ==
    /\ ReportReturned
    /\ Len(job.query_plan) = 2
    /\ job.query_plan[1].entry_id = 1
    /\ SuppliedInsights = <<OtherInsight(1), SlotContention(1, 4)>>
    /\ SelectSeq(Block(ReportLines, 1, 2), IsTypeOrContendedLine)
         = << <<"     - Type: ", "HIGH_CARDINALITY_JOIN">>,
              <<"     - Type: ", "SLOT_CONTENTION">>,
              <<"       Contended Slots: ", "4">> >>

---------------------------------------------------------------------------
(* The order of the batch materializer's scripts, checked under
   SpecBatchFair *)

\* the requests so far are: script 1 submitted, script 1 ended, script 2
\* submitted, script 2 ended, or a prefix of that
SequentialEvents ==
    /\ Len(main.events) <= 2 * Len(Scripts)
    /\ \A i \in 1..Len(main.events) :
          IF i % 2 = 1
          THEN main.events[i] = [ev |-> "submit", k |-> (i + 1) \div 2]
          ELSE main.events[i].ev \in {"finished", "failed"} /\ main.events[i].k = i \div 2

\* main returned after both scripts and the final print
EndedNormally ==
    /\ main.pc = "done"
    /\ Len(main.events) = 2 * Len(Scripts)
    /\ Submissions(main.events, 1) = 1
    /\ Submissions(main.events, 2) = 1
    /\ main.out[Len(main.out)] = <<NL, "All scripts have been executed.">>
    /\ CountLines(main.out, <<NL, "All scripts have been executed.">>) = 1

MainEnded == main.pc \in {"done", "raised"}

\* C19 as stated: with the project id set, main submits each of the two
\* scripts exactly once, the second only after the first has ended, and
\* whatever the scripts' outcomes it ends normally after the final print.
C19_ProjectSetRunsBoth ==
    /\ SequentialEvents
    /\ (MainEnded /\ ~EnvMissing(main.env)) => EndedNormally

\* C19, amended: the same once the client has been constructed; with the
\* project id set main ends otherwise only by the constructor's exception,
\* before any script is submitted.
C19_ClientBuiltRunsBoth ==
    /\ []SequentialEvents
    /\ [](main.events /= <<>> => main.client /= NoneStr)
    /\ []((MainEnded /\ main.client /= NoneStr) => EndedNormally)
    /\ []((MainEnded /\ ~EnvMissing(main.env) /\ main.client = NoneStr) =>
            /\ main.pc = "raised"
            /\ main.exc = CredentialsError
            /\ main.events = <<>>)
    /\ (main.client /= NoneStr) ~> EndedNormally

\* both scripts failed, the first at submission and the second while
\* waiting, and main ended normally
C19_Witness ==
    /\ EndedNormally
    /\ main.client = "proj-a"
    /\ main.events = <<[ev |-> "submit", k |-> 1], [ev |-> "failed", k |-> 1],
                       [ev |-> "submit", k |-> 2], [ev |-> "failed", k |-> 2]>>
    /\ PrintedLine(<<GlyphFail, " An error occurred while running ",
                     "Aggregate Query Statistics", ": ", "Connection aborted.">>)
    /\ PrintedLine(<<GlyphFail, " An error occurred while running ",
                     "Extract Table DDLs", ": ", "400 Query error: Unrecognized name">>)

---------------------------------------------------------------------------
(* The life of the stored handle in sequential use, checked under Spec *)

\* C20: in sequential use the stored handle changes only from unset to set:
\* once set it is never reset or replaced, also by a call whose lookup or
\* fetch fails; a call whose construction fails leaves it unset, and a call
\* that finds it unset constructs the client with its own project id.
C20_HandleSetOnce ==
    [][ /\ bq_client /= None =>
              /\ bq_client' = bq_client
              /\ writes' = writes
        /\ (bq_client = None /\ last'.ctor = "fail") =>
              /\ bq_client' = None
              /\ clients' = clients
              /\ last'.res.exc = CredentialsError
        /\ (bq_client = None /\ last'.ctor = "ok") =>
              /\ bq_client' /= None
              /\ clients' = Append(clients, last'.project_id)
              /\ clients'[bq_client'] = last'.project_id
              /\ writes' = Append(writes, bq_client')
        /\ Len(writes') <= 1 ]_vars

\* a job lookup failed on the stored client and the handle is still the one
\* stored by the only write
C20_Witness ==
    /\ last.op = "get_job_details"
    /\ last.before /= None
    /\ last.api = "NotFound"
    /\ last.res.outcome = "raise"
    /\ bq_client = last.before
    /\ writes = <<last.before>>

---------------------------------------------------------------------------
(* The reference script, job_info_test.py: get_job prints what
   get_job_details returns *)

\* job_info_test.py:10-14
RefFormatTableRef(table_ref) ==
    IF ~Truthy(table_ref)
    THEN <<"N/A">>
    ELSE <<table_ref.project, ".", table_ref.dataset_id, ".", table_ref.table_id>>

\* job_info_test.py:29-31
RefQueryPrints(j) == << <<NL, "--- Query Information ---">>, <<"Query Text:", NL>> \o j.query >>

\* job_info_test.py:34-39
RefTablePrints(j) ==
    IF j.referenced_tables /= <<>>
    THEN <<<<NL, "Referenced Tables:">>>>
           \o [i \in 1..Len(j.referenced_tables) |->
                 <<"  - ">> \o RefFormatTableRef(j.referenced_tables[i])]
    ELSE <<<<NL, "Referenced Tables: None">>>>

\* job_info_test.py:45, the attribute exists, is truthy, and its standalone
\* list is truthy
RefHasInsights(j) ==
    /\ j.performance_insights.attr = "object"
    /\ j.performance_insights.standalone = "list"
    /\ j.performance_insights.items /= <<>>

\* job_info_test.py:46,51
RefStatusPrints(j) ==
    IF RefHasInsights(j)
    THEN <<<<NL, "Performance insights found. Mapping them to stages...">>>>
    ELSE <<<<NL, "No performance insights attribute found or no insights were generated for this job.">>>>

\* job_info_test.py:42,47-48
RECURSIVE RefGroup(_, _)
RefGroup(items, d) ==
    IF items = <<>> THEN d
    ELSE RefGroup(Tail(items), DictAppend(d, Head(items).stage_id, Head(items).insight))
RefStageInsights(j) ==
    IF RefHasInsights(j) THEN RefGroup(j.performance_insights.items, EmptyDict) ELSE EmptyDict

\* job_info_test.py:68-71
RECURSIVE RefInsightPrints(_)
RefInsightPrints(ins) ==
    IF ins = <<>> THEN <<>>
    ELSE <<<<"     - Type: ", Head(ins).insight_type>>>>
           \o (IF Head(ins).insight_type = "SLOT_CONTENTION"
               THEN <<<<"       Contended Slots: ">> \o Dec(Head(ins).contended_slots_count)>>
               ELSE <<>>)
           \o RefInsightPrints(Tail(ins))

\* job_info_test.py:59-71
RECURSIVE RefPlanLoop(_, _)
RefPlanLoop(plan, stage_insights) ==
    IF plan = <<>> THEN <<>>
    ELSE LET stage == Head(plan)
         IN  << <<NL, "## Stage ">> \o Dec(stage.entry_id) \o <<": ">> \o stage.name,
                <<"   Status: ">> \o stage.status,
                <<"   Records Read: ">> \o Thousands(stage.records_read),
                <<"   Records Written: ">> \o Thousands(stage.records_written),
                <<"   Slot Time (ms): ">> \o Thousands(stage.slot_ms) >>
               \o (IF stage.entry_id \in DOMAIN stage_insights
                   THEN <<<<"   *** Query Insights for this stage: ***">>>>
                          \o RefInsightPrints(stage_insights[stage.entry_id])
                   ELSE <<>>)
               \o RefPlanLoop(Tail(plan), stage_insights)

\* job_info_test.py:54-58, with the early return after the notice
RefPlanPrints(j) ==
    IF j.query_plan = <<>>
    THEN <<<<"Job has no query plan.">>>>
    ELSE <<<<NL, "--- Query Execution Plan & Insights ---">>>>
           \o RefPlanLoop(j.query_plan, RefStageInsights(j))

\* get_job (job_info_test.py:16-71) on its own client: the print calls it
\* makes, in order, and whether it returned
get_job(lookup, j) ==
    LET header == <<<<"Fetching job ", "job-1", " from location ", "us", "...">>>>
    IN  IF lookup /= "ok"
        THEN [outcome |-> "raise",
              exc |-> IF lookup = "NotFound" THEN NotFound("Job") ELSE Forbidden("Job"),
              printed |-> header]
        ELSE [outcome |-> "return", exc |-> NoExc,
              printed |-> header \o RefQueryPrints(j) \o RefTablePrints(j)
                            \o RefStatusPrints(j) \o RefPlanPrints(j)]

---------------------------------------------------------------------------
(* The tool against the reference script, checked under SpecReport *)

\* the physical lines get_job prints after its "Fetching job" line
RefLines == SplitLines(Join(Tail(get_job(last.api, job).printed)))

IsStatusLine(line) ==
    line \in { <<"Performance insights found. Mapping them to stages...">>,
               <<"No performance insights were generated for this job.">>,
               <<"No performance insights attribute found or no insights were generated for this job.">> }
IsNoStatusLine(line) == ~IsStatusLine(line)

\* the reference's lines without the blank line its first print opens with
RefLinesFromQuery == IF RefLines[1] = <<>> THEN Tail(RefLines) ELSE RefLines

\* the two outputs agree but for the wording of the status line
SameReport ==
    /\ last.res.outcome = "return"
    /\ get_job(last.api, job).outcome = "return"
    /\ Len(RefLinesFromQuery) = Len(ReportLines)
    /\ SelectSeq(RefLinesFromQuery, IsNoStatusLine) = SelectSeq(ReportLines, IsNoStatusLine)
    /\ Len(SelectSeq(RefLinesFromQuery, IsStatusLine)) = 1
    /\ Len(SelectSeq(ReportLines, IsStatusLine)) = 1

\* C21: for every job response, also one whose performance_insights is
\* present with an empty or absent standalone list, get_job_details and
\* get_job both complete and give the same lines, apart from the wording of
\* the one insight status line.
C21_ToolMatchesReference == JobRetrieved => SameReport

\* the same for the jobs whose insight object, if any, has a list
MatchesReferenceWithList ==
    (JobRetrieved /\ job.performance_insights /= PerfNoList) => SameReport

\* the reference completes on a job whose insight object has no list
ReferenceCompletesWithoutList ==
    (JobRetrieved /\ job.performance_insights = PerfNoList) =>
        /\ get_job(last.api, job).outcome = "return"
        /\ last.res.outcome = "raise"
        /\ last.res.exc = IterNoneError

=============================================================================
